---- MODULE Spec2Model ----
(***************************************************************************)
(* dictionary_mapper: the path reader (_get_by_path), the path writer      *)
(* (_set_by_path) and the transformation engine (create_transformed_dict)  *)
(* of RawDictionaryMapper, over a heap of Python dict and list objects.    *)
(*                                                                         *)
(* Python dicts and lists are mutable objects handled by reference, so a   *)
(* document is a heap address and not a value: heap[a] is the object at    *)
(* address a.  A path string is the sequence of its characters.            *)
(***************************************************************************)
EXTENDS Integers, Sequences, FiniteSets, TLC

VARIABLES
    heap,     \* the Python heap: a sequence of dict and list objects
    source,   \* the source document handed to create_transformed_dict / read
    doc,      \* the target document the path writer is called on directly
    calls,    \* the create_transformed_dict calls in progress
    wr,       \* the last direct _set_by_path call and the heap before it
    rd,       \* the last direct _get_by_path call and its result
    nwrites   \* the number of direct _set_by_path calls made on doc

vars == <<heap, source, doc, calls, wr, rd, nwrites>>

-----------------------------------------------------------------------------
(* Bounds of the model.                                                    *)

MaxEntries == 2      \* entries of one mapping specification
MaxWrites == 2       \* direct writer calls on one target document
MaxDepth == 4        \* levels unfolded when two documents are compared

-----------------------------------------------------------------------------
(* Values: None, int, str, or a reference to a dict or list on the heap.   *)

None == [t |-> "none", n |-> 0, s |-> ""]
I(n) == [t |-> "int", n |-> n, s |-> ""]
S(s) == [t |-> "str", n |-> 0, s |-> s]
R(a) == [t |-> "ref", n |-> a, s |-> ""]

EmptyDict == [t |-> "dict", m |-> <<>>, im |-> <<>>, items |-> <<>>]
EmptyList == [t |-> "list", m |-> <<>>, im |-> <<>>, items |-> <<>>]
DictOf(m) == [t |-> "dict", m |-> m, im |-> <<>>, items |-> <<>>]
ListOf(items) == [t |-> "list", m |-> <<>>, im |-> <<>>, items |-> items]

\* isinstance(v, dict), isinstance(v, list)
IsDict(h, v) == v.t = "ref" /\ h[v.n].t = "dict"
IsList(h, v) == v.t = "ref" /\ h[v.n].t = "list"

\* A result of a step that may raise: the heap as the step left it.
Ok(h) == [h |-> h, err |-> FALSE, v |-> None]
OkV(h, v) == [h |-> h, err |-> FALSE, v |-> v]
Raise(h) == [h |-> h, err |-> TRUE, v |-> None]

\* A new object: Python allocates it at an address nothing else holds.
Alloc(h, node) == [h |-> Append(h, node), err |-> FALSE, v |-> R(Len(h) + 1)]

-----------------------------------------------------------------------------
(* Path strings.  path.split("."), ".".join(parts), and the two regular    *)
(* expressions of main.py.                                                 *)

Digits == {"0", "1", "2", "3", "4", "5", "6", "7", "8", "9"}

DigitVal(c) ==
    CASE c = "0" -> 0 [] c = "1" -> 1 [] c = "2" -> 2 [] c = "3" -> 3
      [] c = "4" -> 4 [] c = "5" -> 5 [] c = "6" -> 6 [] c = "7" -> 7
      [] c = "8" -> 8 [] c = "9" -> 9

RECURSIVE Split(_)
\* path.split("."): "" gives [""], "a." gives ["a", ""]
Split(p) ==
    IF p = <<>> THEN << <<>> >>
    ELSE LET rest == Split(Tail(p))
         IN  IF Head(p) = "." THEN << <<>> >> \o rest
             ELSE << <<Head(p)>> \o Head(rest) >> \o Tail(rest)

RECURSIVE Join(_)
\* ".".join(parts)
Join(parts) ==
    IF parts = <<>> THEN <<>>
    ELSE IF Len(parts) = 1 THEN Head(parts)
    ELSE Head(parts) \o <<".">> \o Join(Tail(parts))

RECURSIVE Str(_)
\* the characters of a key as one string
Str(cs) == IF cs = <<>> THEN "" ELSE Head(cs) \o Str(Tail(cs))

RECURSIVE ToInt(_)
\* int(digits)
ToInt(ds) == IF ds = <<>> THEN 0 ELSE 10 * ToInt(SubSeq(ds, 1, Len(ds) - 1)) + DigitVal(ds[Len(ds)])

NoMatch == [ok |-> FALSE, key |-> "", idx |-> 0, subkey |-> ""]

\* re.match(r"^([^\[]+)\[(\d+)\]$", part): a key without "[", then "[digits]"
Match(part) ==
    LET opens == {i \in 1..Len(part) : part[i] = "["}
    IN  IF opens = {} THEN NoMatch
        ELSE LET o == CHOOSE i \in opens : \A j \in opens : i <= j
                 n == Len(part)
             IN  IF /\ o > 1
                    /\ part[n] = "]"
                    /\ n - 1 >= o + 1
                    /\ \A j \in (o + 1)..(n - 1) : part[j] \in Digits
                 THEN [ok |-> TRUE, key |-> Str(SubSeq(part, 1, o - 1)),
                       idx |-> ToInt(SubSeq(part, o + 1, n - 1)), subkey |-> ""]
                 ELSE NoMatch

\* re.match(r"^([^\[]+)\[(\d+)\]\.([^\[]]+)$", part): key "[digits]" "." and
\* then one character other than "[" followed by one or more "]"
SubMatch(part) ==
    LET dots == {i \in 1..Len(part) : part[i] = "."}
        opens == {i \in 1..Len(part) : part[i] = "["}
    IN  IF dots = {} \/ opens = {} THEN NoMatch
        ELSE LET o == CHOOSE i \in opens : \A j \in opens : i <= j
                 closes == {i \in (o + 1)..Len(part) : part[i] = "]"}
                 c == IF closes = {} THEN 0
                      ELSE CHOOSE i \in closes : \A j \in closes : i <= j
                 n == Len(part)
             IN  IF /\ o > 1
                    /\ c >= o + 2
                    /\ \A j \in (o + 1)..(c - 1) : part[j] \in Digits
                    /\ n >= c + 3
                    /\ part[c + 1] = "."
                    /\ part[c + 2] # "["
                    /\ \A j \in (c + 3)..n : part[j] = "]"
                 THEN [ok |-> TRUE, key |-> Str(SubSeq(part, 1, o - 1)),
                       idx |-> ToInt(SubSeq(part, o + 1, c - 1)),
                       subkey |-> Str(SubSeq(part, c + 2, n))]
                 ELSE NoMatch

-----------------------------------------------------------------------------
(* The path reader: RawDictionaryMapper._get_by_path.                      *)

\* cur.get(key, default) on a dict: only str keys are asked for
DictGet(h, cur, key, default) ==
    IF key \in DOMAIN h[cur.n].m THEN h[cur.n].m[key] ELSE default

\* An indexed part key[idx]: lines 43-51
GetIndexed(h, cur, key, idx, default) ==
    LET c1 == IF IsDict(h, cur) THEN DictGet(h, cur, key, default) ELSE default
    IN  IF ~IsList(h, c1) THEN default
        ELSE IF idx < Len(h[c1.n].items) THEN h[c1.n].items[idx + 1]
        ELSE default

\* A plain part: lines 52-55
GetPlain(h, cur, part, default) ==
    IF IsDict(h, cur) THEN DictGet(h, cur, Str(part), default) ELSE default

\* One turn of the loop of lines 40-57
GetStep(h, cur, part, default) ==
    LET m == Match(part)
        c == IF m.ok THEN GetIndexed(h, cur, m.key, m.idx, default)
             ELSE GetPlain(h, cur, part, default)
    IN  IF c = None THEN default ELSE c

RECURSIVE GetWalk(_, _, _, _)
GetWalk(h, cur, parts, default) ==
    IF parts = <<>> THEN cur
    ELSE GetWalk(h, GetStep(h, cur, Head(parts), default), Tail(parts), default)

\* As get_by_path, the path not split: the whole path looked up as one part
GetUnsplit(h, src, path, default) ==
    IF path = <<>> THEN default
    ELSE GetWalk(h, src, <<path>>, default)

\* _get_by_path(source, path, default): an empty path gives the default
get_by_path(h, src, path, default) ==
    IF path = <<>> THEN default
    ELSE GetWalk(h, src, Split(path), default)

-----------------------------------------------------------------------------
(* The path writer: RawDictionaryMapper._set_by_path.  Every operation     *)
(* Python refuses on the object it meets (AttributeError, TypeError,       *)
(* KeyError) raises, leaving the heap as changed so far.                   *)

\* dst[key] = value with a str key: a dict takes it, anything else raises
SetItem(h, dst, key, value) ==
    IF IsDict(h, dst)
    THEN Ok([h EXCEPT ![dst.n].m = (key :> value) @@ h[dst.n].m])
    ELSE Raise(h)

\* dst.setdefault(key, fresh): the object under key, a fresh one put there
\* when the key is absent; only a dict has setdefault
SetDefault(h, dst, key, fresh) ==
    IF ~IsDict(h, dst) THEN Raise(h)
    ELSE IF key \in DOMAIN h[dst.n].m THEN OkV(h, h[dst.n].m[key])
    ELSE LET a == Alloc(h, fresh)
         IN  OkV([a.h EXCEPT ![dst.n].m = (key :> a.v) @@ a.h[dst.n].m], a.v)

\* The object appended to a list that is too short: lines 74, 80, 90
Filler(value) == EmptyDict

RECURSIVE PadToLength(_, _, _, _)
\* As Pad, the list brought to the length idx + 1 exactly: one that is longer
\* is cut
PadToLength(h, lst, idx, value) ==
    IF Len(h[lst.n].items) <= idx
    THEN LET a == Alloc(h, Filler(value))
         IN  PadToLength([a.h EXCEPT ![lst.n].items = Append(a.h[lst.n].items, a.v)],
                         lst, idx, value)
    ELSE [h EXCEPT ![lst.n].items = SubSeq(h[lst.n].items, 1, idx + 1)]

RECURSIVE Pad(_, _, _, _)
\* while len(lst) <= idx: lst.append({}), on a list
Pad(h, lst, idx, value) ==
    IF Len(h[lst.n].items) <= idx
    THEN LET a == Alloc(h, Filler(value))
         IN  Pad([a.h EXCEPT ![lst.n].items = Append(a.h[lst.n].items, a.v)],
                 lst, idx, value)
    ELSE h

\* len(x) of a dict: its str and int keys
DictLen(h, v) == Cardinality(DOMAIN h[v.n].m) + Cardinality(DOMAIN h[v.n].im)

\* The while loop on whatever setdefault returned.  A list is padded.  A dict
\* has a len but no append: it raises unless it already has more than idx
\* keys.  A str raises in the loop (append) or at the item assignment that
\* follows it, an int or None at len.
PadAny(h, lst, idx, value) ==
    IF IsList(h, lst) THEN Ok(Pad(h, lst, idx, value))
    ELSE IF IsDict(h, lst) /\ DictLen(h, lst) > idx THEN Ok(h)
    ELSE Raise(h)

\* lst[idx] = value after the loop: a list slot, or the int key idx of a dict
SetIndex(h, lst, idx, value) ==
    IF IsList(h, lst) THEN [h EXCEPT ![lst.n].items[idx + 1] = value]
    ELSE [h EXCEPT ![lst.n].im = (idx :> value) @@ h[lst.n].im]

\* The last part is key[idx]: lines 77-81
SetFinalIndexed(h, dst, key, idx, value) ==
    LET d == SetDefault(h, dst, key, EmptyList)
    IN  IF d.err THEN d
        ELSE LET p == PadAny(d.h, d.v, idx, value)
             IN  IF p.err THEN p ELSE Ok(SetIndex(p.h, d.v, idx, value))

\* A part key[idx] before the last: lines 87-92, giving the dict to descend
\* into.  lst[idx] of a dict without the int key idx is a KeyError.
EnsureSlotDict(h, dst, key, idx, value) ==
    LET d == SetDefault(h, dst, key, EmptyList)
    IN  IF d.err THEN d
        ELSE LET p == PadAny(d.h, d.v, idx, value)
             IN  IF p.err THEN p
                 ELSE IF IsDict(p.h, d.v) /\ idx \notin DOMAIN p.h[d.v.n].im
                 THEN Raise(p.h)
                 ELSE LET cur == IF IsList(p.h, d.v) THEN p.h[d.v.n].items[idx + 1]
                                 ELSE p.h[d.v.n].im[idx]
                      IN  IF IsDict(p.h, cur) THEN OkV(p.h, cur)
                          ELSE LET a == Alloc(p.h, EmptyDict)
                               IN  OkV(SetIndex(a.h, d.v, idx, a.v), a.v)

\* The branch of sub_m, lines 71-75: lst[idx][subkey] = value
SetSubKey(h, dst, key, idx, subkey, value) ==
    LET d == SetDefault(h, dst, key, EmptyList)
    IN  IF d.err THEN d
        ELSE LET p == PadAny(d.h, d.v, idx, value)
             IN  IF p.err THEN p
                 ELSE IF IsDict(p.h, d.v) /\ idx \notin DOMAIN p.h[d.v.n].im
                 THEN Raise(p.h)
                 ELSE LET cur == IF IsList(p.h, d.v) THEN p.h[d.v.n].items[idx + 1]
                                 ELSE p.h[d.v.n].im[idx]
                      IN  SetItem(p.h, cur, subkey, value)

RECURSIVE set_by_path(_, _, _, _)
\* _set_by_path(dst, path, value)
set_by_path(h, dst, path, value) ==
    LET parts == Split(path)
        part == Head(parts)
        m == Match(part)
        sub_m == SubMatch(part)
    IN  IF parts = <<>> THEN Ok(h)
        ELSE IF Len(parts) = 1
        THEN IF sub_m.ok
             THEN SetSubKey(h, dst, sub_m.key, sub_m.idx, sub_m.subkey, value)
             ELSE IF m.ok THEN SetFinalIndexed(h, dst, m.key, m.idx, value)
             ELSE SetItem(h, dst, Str(part), value)
        ELSE IF m.ok
        THEN LET e == EnsureSlotDict(h, dst, m.key, m.idx, value)
             IN  IF e.err THEN e
                 ELSE set_by_path(e.h, e.v, Join(Tail(parts)), value)
        ELSE LET child == SetDefault(h, dst, Str(part), EmptyDict)
             IN  IF child.err THEN child
                 ELSE set_by_path(child.h, child.v, Join(Tail(parts)), value)

-----------------------------------------------------------------------------
(* The transformation engine: RawDictionaryMapper.create_transformed_dict. *)
(* An entry of a mapping specification is its source path, and either a    *)
(* bare target path (bare) or a descriptor {path, default, transform}.     *)
(* A transform is "none" (None), "notcallable" (a value that is not        *)
(* callable), "double" (lambda x: x * 2, of the tests) or "raise" (a       *)
(* callable that always raises, of the tests).                             *)

\* lambda x: x * 2: an int doubles, a str and a list repeat (the list is a
\* new object), None and a dict raise TypeError
Double(h, x) ==
    IF x.t = "int" THEN OkV(h, I(2 * x.n))
    ELSE IF x.t = "str" THEN OkV(h, S(x.s \o x.s))
    ELSE IF IsList(h, x) THEN Alloc(h, ListOf(h[x.n].items \o h[x.n].items))
    ELSE Raise(h)

\* transform(raw_val)
ApplyTransform(h, transform, x) ==
    IF transform = "double" THEN Double(h, x) ELSE Raise(h)

\* callable(transform)
Callable(transform) == transform \in {"double", "raise"}

\* Lines 118-125: the target path, the default and the transform of an entry
EntryPath(e) == e.path
EntryDefault(e) == IF e.bare THEN None ELSE e.default
EntryTransform(e) == IF e.bare THEN "none" ELSE e.transform

\* As TransformedValue, the transform never called
TransformSkipped(h, transform, raw_val, default) == OkV(h, raw_val)

\* As TransformedValue, the raw value kept when the transform raises
TransformFailureKeepsRaw(h, transform, raw_val, default) ==
    IF Callable(transform)
    THEN LET t == ApplyTransform(h, transform, raw_val)
         IN  IF t.err THEN OkV(h, raw_val) ELSE OkV(t.h, t.v)
    ELSE OkV(h, raw_val)

\* Lines 128-134: the value to write
TransformedValue(h, transform, raw_val, default) ==
    IF Callable(transform)
    THEN LET t == ApplyTransform(h, transform, raw_val)
         IN  IF t.err THEN OkV(h, default) ELSE OkV(t.h, t.v)
    ELSE OkV(h, raw_val)

\* Lines 118-136: one turn of the loop over spec.items(); v is the value
\* handed to the writer
ProcessEntry(h, src, out, e) ==
    LET default == EntryDefault(e)
        raw_val == get_by_path(h, src, e.src, default)
        val == TransformedValue(h, EntryTransform(e), raw_val, default)
        w == set_by_path(val.h, out, EntryPath(e), val.v)
    IN  [h |-> w.h, err |-> w.err, v |-> val.v]

RECURSIVE RunEntries(_, _, _, _, _)
\* The loop of lines 117-136 from entry i on; an error of the writer ends it
RunEntries(h, src, out, spec, i) ==
    IF i > Len(spec) THEN OkV(h, out)
    ELSE LET r == ProcessEntry(h, src, out, spec[i])
         IN  IF r.err THEN Raise(r.h)
             ELSE RunEntries(r.h, src, out, spec, i + 1)

\* create_transformed_dict(source, spec) run from start to end on heap h
create_transformed_dict(h, src, spec) ==
    LET out == Alloc(h, EmptyDict)
    IN  RunEntries(out.h, src, out.v, spec, 1)

-----------------------------------------------------------------------------
(* The objects the callers hold at the start: the source document          *)
(*   {"a": {"b": 1, "c": 2}, "n": 5, "s": "hi", "z": None,                *)
(*    "l": [{"c": "w"}, 7]}                                                *)
(* at address 1, and two containers used as defaults, {"b": 9} and [8].    *)

InitHeap ==
    << DictOf(("a" :> R(2)) @@ ("n" :> I(5)) @@ ("s" :> S("hi")) @@ ("z" :> None)
              @@ ("l" :> R(3))),
       DictOf(("b" :> I(1)) @@ ("c" :> I(2))),
       ListOf(<<R(4), I(7)>>),
       DictOf("c" :> S("w")),
       DictOf("b" :> I(9)),
       ListOf(<<I(8)>>) >>

SourceDoc == R(1)
SourceNodes == {1, 2, 3, 4}
DefaultDict == R(5)
DefaultList == R(6)

\* The paths of the specifications
SrcPaths ==
    { <<"a">>, <<"n">>, <<"z">>, <<"l">>, <<"a", ".", "y">>, <<>> }
TgtPaths ==
    { <<"x">>, <<"x", ".", "y">>, <<"x", "[", "1", "]">>,
      <<"x", "[", "0", "]", ".", "y">>, <<>> }
DescSrcPaths == { <<"s">>, <<"a">>, <<"l">>, <<"l", "[", "0", "]", ".", "q">> }
DescTgtPaths == { <<"k", "[", "1", "]">> }
Descriptors ==
    { [default |-> S("D"), transform |-> "double"],
      [default |-> S("D"), transform |-> "raise"],
      [default |-> I(0), transform |-> "none"],
      [default |-> DefaultDict, transform |-> "notcallable"] }

Entries ==
    { [src |-> sp, bare |-> TRUE, path |-> tp, default |-> None, transform |-> "none"] :
        sp \in SrcPaths, tp \in TgtPaths }
    \cup
    { [src |-> sp, bare |-> FALSE, path |-> tp, default |-> d.default,
       transform |-> d.transform] :
        sp \in DescSrcPaths, tp \in DescTgtPaths, d \in Descriptors }

\* A mapping specification is a dict: its source paths are distinct
RECURSIVE SpecsOver(_, _)
SpecsOver(es, n) ==
    IF n = 0 THEN { <<>> }
    ELSE LET shorter == SpecsOver(es, n - 1)
         IN  shorter \cup
             { Append(sp, e) : sp \in {q \in shorter : Len(q) = n - 1},
                               e \in es }

DistinctKeys(sp) == \A i, j \in 1..Len(sp) : i # j => sp[i].src # sp[j].src

SpecSet == { sp \in SpecsOver(Entries, MaxEntries) : DistinctKeys(sp) }

-----------------------------------------------------------------------------
(* State and actions.                                                      *)

Idle == [st |-> "idle", spec |-> <<>>, i |-> 0, out |-> None, pre |-> <<>>,
         val |-> None]
NoWrite == [done |-> FALSE, path |-> <<>>, value |-> None, err |-> FALSE, pre |-> <<>>]
NoRead == [done |-> FALSE, root |-> None, path |-> <<>>, default |-> None,
           result |-> None, at |-> 0]

Init ==
    /\ heap = InitHeap
    /\ source = SourceDoc
    /\ doc = None
    /\ calls = [c \in {1} |-> Idle]
    /\ wr = NoWrite
    /\ rd = NoRead
    /\ nwrites = 0

\* create_transformed_dict(source, spec) is called: out = {}  (line 115)
Start(c, specs) ==
    /\ calls[c].st = "idle"
    /\ \E sp \in specs :
         LET a == Alloc(heap, EmptyDict)
         IN  /\ heap' = a.h
             /\ calls' = [calls EXCEPT ![c] =
                   [st |-> "running", spec |-> sp, i |-> 0, out |-> a.v,
                    pre |-> heap, val |-> None]]
    /\ UNCHANGED <<source, doc, wr, rd, nwrites>>

\* One entry of spec.items() is read, transformed and written (lines 117-136);
\* an error of the writer leaves the call
Entry(c) ==
    /\ calls[c].st = "running"
    /\ calls[c].i < Len(calls[c].spec)
    /\ LET r == ProcessEntry(heap, source, calls[c].out, calls[c].spec[calls[c].i + 1])
       IN  /\ heap' = r.h
           /\ calls' = [calls EXCEPT ![c].st = IF r.err THEN "raised" ELSE "running",
                                     ![c].i = calls[c].i + 1,
                                     ![c].pre = heap,
                                     ![c].val = r.v]
    /\ UNCHANGED <<source, doc, wr, rd, nwrites>>

\* return out  (line 138)
Return(c) ==
    /\ calls[c].st = "running"
    /\ calls[c].i = Len(calls[c].spec)
    /\ calls' = [calls EXCEPT ![c].st = "returned"]
    /\ UNCHANGED <<heap, source, doc, wr, rd, nwrites>>

Next ==
    \/ \E c \in DOMAIN calls : Start(c, SpecSet)
    \/ \E c \in DOMAIN calls : Entry(c)
    \/ \E c \in DOMAIN calls : Return(c)

Spec == Init /\ [][Next]_vars

-----------------------------------------------------------------------------
(* The path writer and the path reader called directly, on a target        *)
(* document that starts as an empty dict.                                  *)

WritePaths ==
    { <<"x">>, <<"x", ".", "y">>, <<"x", "[", "0", "]">>, <<"x", "[", "1", "]">>,
      <<"k", "[", "3", "]">>, <<"k", "[", "1", "]">>,
      <<"x", "[", "0", "]", ".", "y">>, <<"k", "[", "1", "]", ".", "y">>,
      <<"a", "[", "b", "]">>, <<>> }
WriteValues == { None, I(5), S("v") }

ReadPaths ==
    WritePaths \cup
    { <<"a">>, <<"n">>, <<"z">>, <<"a", ".", "b">>, <<"n", ".", "b">>,
      <<"l", "[", "1", "]">>, <<"l", "[", "0", "]", ".", "c">>,
      <<"l", "[", "5", "]">>, <<"a", "[", "0", "]">>, <<"q", ".", "b">>,
      <<"q", "[", "0", "]">>, <<"z", ".", "b">> }
ReadDefaults == { None, I(0), S("D"), DefaultDict, DefaultList }

PathInit ==
    /\ heap = Append(InitHeap, EmptyDict)
    /\ source = SourceDoc
    /\ doc = R(Len(InitHeap) + 1)
    /\ calls = <<>>
    /\ wr = NoWrite
    /\ rd = NoRead
    /\ nwrites = 0

\* _set_by_path(doc, path, value), value a scalar the caller holds
WriteScalar(limit) ==
    /\ nwrites < limit
    /\ \E path \in WritePaths, value \in WriteValues :
         LET w == set_by_path(heap, doc, path, value)
         IN  /\ heap' = w.h
             /\ wr' = [done |-> TRUE, path |-> path, value |-> value,
                       err |-> w.err, pre |-> heap]
    /\ nwrites' = nwrites + 1
    /\ UNCHANGED <<source, doc, calls, rd>>

\* _set_by_path(doc, path, {"b": 9}), the value a dict made for this call
WriteDict(limit) ==
    /\ nwrites < limit
    /\ \E path \in WritePaths :
         LET a == Alloc(heap, DictOf("b" :> I(9)))
             w == set_by_path(a.h, doc, path, a.v)
         IN  /\ heap' = w.h
             /\ wr' = [done |-> TRUE, path |-> path, value |-> a.v,
                       err |-> w.err, pre |-> a.h]
    /\ nwrites' = nwrites + 1
    /\ UNCHANGED <<source, doc, calls, rd>>

\* _get_by_path(root, path, default) on the source or the target document;
\* rd keeps one read of a behaviour, and the number of writes made before it
Read ==
    /\ ~rd.done
    /\ \E root \in {source, doc}, path \in ReadPaths, default \in ReadDefaults :
         rd' = [done |-> TRUE, root |-> root, path |-> path, default |-> default,
                result |-> get_by_path(heap, root, path, default), at |-> nwrites]
    /\ UNCHANGED <<heap, source, doc, calls, wr, nwrites>>

WriterNext ==
    \/ WriteScalar(MaxWrites)
    \/ WriteDict(MaxWrites)

SpecWriter == PathInit /\ [][WriterNext]_vars

\* One write into the fresh document, and reads before and after it
ReaderNext ==
    \/ WriteScalar(1)
    \/ WriteDict(1)
    \/ Read

SpecReader == PathInit /\ [][ReaderNext]_vars

-----------------------------------------------------------------------------
(* Two create_transformed_dict calls on the same source document, their    *)
(* entries interleaved.                                                    *)

ConcEntries ==
    { [src |-> sp, bare |-> TRUE, path |-> tp, default |-> None, transform |-> "none"] :
        sp \in { <<"a">>, <<"n">>, <<"a", ".", "y">> },
        tp \in { <<"x">>, <<"x", ".", "y">> } }

ConcSpecSet == { sp \in SpecsOver(ConcEntries, MaxEntries) : DistinctKeys(sp) }

ConcInit ==
    /\ heap = InitHeap
    /\ source = SourceDoc
    /\ doc = None
    /\ calls = [c \in {1, 2} |-> Idle]
    /\ wr = NoWrite
    /\ rd = NoRead
    /\ nwrites = 0

ConcNext ==
    \/ \E c \in DOMAIN calls : Start(c, ConcSpecSet)
    \/ \E c \in DOMAIN calls : Entry(c)
    \/ \E c \in DOMAIN calls : Return(c)

SpecConc == ConcInit /\ [][ConcNext]_vars

-----------------------------------------------------------------------------
(* What the claims speak of.                                               *)

\* The value a path addresses in a document, when every part of the path
\* finds its key or index in a container of the shape the part needs
RECURSIVE ResolveParts(_, _, _)
ResolveParts(h, cur, parts) ==
    IF parts = <<>> THEN [ok |-> TRUE, v |-> cur]
    ELSE LET m == Match(Head(parts))
             key == IF m.ok THEN m.key ELSE Str(Head(parts))
         IN  IF ~IsDict(h, cur) \/ key \notin DOMAIN h[cur.n].m
             THEN [ok |-> FALSE, v |-> None]
             ELSE LET slot == h[cur.n].m[key]
                  IN  IF ~m.ok THEN ResolveParts(h, slot, Tail(parts))
                      ELSE IF IsList(h, slot) /\ m.idx < Len(h[slot.n].items)
                      THEN ResolveParts(h, h[slot.n].items[m.idx + 1], Tail(parts))
                      ELSE [ok |-> FALSE, v |-> None]

Resolve(h, root, path) == ResolveParts(h, root, Split(path))

\* A document as a tree of values, unfolded to depth d
RECURSIVE Tree(_, _, _)
Tree(h, v, d) ==
    IF v.t # "ref"
    THEN [t |-> v.t, n |-> v.n, s |-> v.s, m |-> <<>>, im |-> <<>>, items |-> <<>>]
    ELSE IF d = 0
    THEN [t |-> "deeper", n |-> 0, s |-> "", m |-> <<>>, im |-> <<>>, items |-> <<>>]
    ELSE LET o == h[v.n]
         IN  [t |-> o.t, n |-> 0, s |-> "",
              m |-> [k \in DOMAIN o.m |-> Tree(h, o.m[k], d - 1)],
              im |-> [k \in DOMAIN o.im |-> Tree(h, o.im[k], d - 1)],
              items |-> [k \in 1..Len(o.items) |-> Tree(h, o.items[k], d - 1)]]

SameDoc(h1, v1, h2, v2) == Tree(h1, v1, MaxDepth) = Tree(h2, v2, MaxDepth)

PlainPath(path) == \A i \in 1..Len(Split(path)) : ~Match(Split(path)[i]).ok
Scalar(v) == v.t \in {"int", "str"}
Max(a, b) == IF a >= b THEN a ELSE b

\* The last entry a call processed, the value read for it and whether its
\* transform raised on that value
LastEntry(k) == k.spec[k.i]
LastRaw(k) == get_by_path(k.pre, source, LastEntry(k).src, EntryDefault(LastEntry(k)))
LastTransform(k) == ApplyTransform(k.pre, EntryTransform(LastEntry(k)), LastRaw(k))

-----------------------------------------------------------------------------
\* C1: a specification with a single entry returns a document that holds, at
\* the entry's target path, the value read from the source (the default when
\* the source path does not resolve) if the transform is absent or not
\* callable, and the transform's result on that value if it is callable and
\* returns.
SingleEntryResult ==
    \A c \in DOMAIN calls :
        LET k == calls[c]
        IN  (Len(k.spec) = 1 /\ k.i = 1) =>
              LET e == LastEntry(k)
                  stored == Resolve(heap, k.out, EntryPath(e))
                  t == LastTransform(k)
              IN  /\ k.st # "raised"
                  /\ ~Callable(EntryTransform(e)) =>
                        stored.ok /\ stored.v = LastRaw(k)
                  /\ (Callable(EntryTransform(e)) /\ ~t.err) =>
                        stored.ok /\ SameDoc(heap, stored.v, t.h, t.v)

\* A returned call of one entry whose transform doubled the str it read and
\* stored the result at index 1 of a new list
SingleEntryWitness ==
    \E c \in DOMAIN calls :
        /\ calls[c].st = "returned"
        /\ Len(calls[c].spec) = 1
        /\ calls[c].spec[1].transform = "double"
        /\ calls[c].spec[1].src = <<"s">>
        /\ Resolve(heap, calls[c].out, <<"k", "[", "1", "]">>).v = S("hihi")

-----------------------------------------------------------------------------
\* C2: create_transformed_dict is total: whatever the specification, the call
\* returns and no error leaves it.
NeverRaises == \A c \in DOMAIN calls : calls[c].st # "raised"

-----------------------------------------------------------------------------
\* C3: the source document is never mutated: every object of the source is,
\* after any number of entries, what it was before the call.
SourceUnchanged == \A a \in SourceNodes : heap[a] = InitHeap[a]

-----------------------------------------------------------------------------
\* C4: when the transform of an entry is callable and raises on the value
\* read from the source, the value handed to the writer is the entry's
\* default, the call is left only if the writer itself raises on writing that
\* default, and a specification of this one entry returns a document that
\* holds the default at the target path.
TransformFailureWritesDefault ==
    \A c \in DOMAIN calls :
        LET k == calls[c]
        IN  (k.i >= 1 /\ Callable(EntryTransform(LastEntry(k))) /\ LastTransform(k).err) =>
              LET e == LastEntry(k)
                  w == set_by_path(k.pre, k.out, EntryPath(e), EntryDefault(e))
              IN  /\ k.val = EntryDefault(e)
                  /\ (k.st = "raised") = w.err
                  /\ Len(k.spec) = 1 =>
                        /\ k.st # "raised"
                        /\ Resolve(heap, k.out, EntryPath(e)) =
                              [ok |-> TRUE, v |-> EntryDefault(e)]

\* A returned call whose only entry read "hi", had a transform that raised,
\* and left the default "D", not "hi", at the target path
TransformFailureWitness ==
    \E c \in DOMAIN calls :
        /\ calls[c].st = "returned"
        /\ Len(calls[c].spec) = 1
        /\ calls[c].spec[1].transform = "raise"
        /\ LastRaw(calls[c]) = S("hi")
        /\ Resolve(heap, calls[c].out, <<"k", "[", "1", "]">>).v = S("D")

-----------------------------------------------------------------------------
\* C9: two calls interleaved on the same source document are independent:
\* a call that returns, returns the document it returns when it runs alone
\* on the original source, and a call is left by an error only if it is when
\* it runs alone.
ConcurrentCallsIndependent ==
    \A c \in DOMAIN calls :
        LET k == calls[c]
            alone == create_transformed_dict(InitHeap, SourceDoc, k.spec)
        IN  /\ k.st = "returned" =>
                  ~alone.err /\ SameDoc(heap, k.out, alone.h, alone.v)
            /\ k.st = "raised" => alone.err

-----------------------------------------------------------------------------
(* The path writer.                                                        *)

\* The first part of the last written path, and the object the target
\* document held under its key before the write
WrParts == Split(wr.path)
WrFirst == Match(Head(WrParts))
WrHad(key) == key \in DOMAIN wr.pre[doc.n].m
WrSlot(key) == wr.pre[doc.n].m[key]

\* The placeholder that matches the shape of a value
PlaceholderFits(h, slot, value) ==
    IF value.t = "str" THEN slot = S("")
    ELSE IF value.t = "int" THEN slot = I(-1)
    ELSE IF IsDict(h, value) THEN IsDict(h, slot) /\ h[slot.n] = EmptyDict
    ELSE slot = None

\* C5: a write of value v at key[i], where key holds a sequence shorter than
\* i (or the empty sequence the writer creates), leaves in every slot it
\* appends below i the placeholder of v's shape: "" for a str, -1 for a
\* number, an empty mapping for a mapping, null otherwise.
PaddingShapeMatched ==
    (wr.done /\ ~wr.err /\ Len(WrParts) = 1 /\ WrFirst.ok) =>
        LET n == IF WrHad(WrFirst.key) /\ IsList(wr.pre, WrSlot(WrFirst.key))
                 THEN Len(wr.pre[WrSlot(WrFirst.key).n].items)
                 ELSE IF WrHad(WrFirst.key) THEN WrFirst.idx ELSE 0
            lst == heap[doc.n].m[WrFirst.key]
        IN  IsList(heap, lst) =>
              \A j \in (n + 1)..WrFirst.idx :
                  PlaceholderFits(heap, heap[lst.n].items[j], wr.value)

\* A part of the path needs a container and its slot holds something of
\* another shape: a scalar, a sequence for a mapping, a mapping for a sequence
Incompatible(h, slot, shape) ==
    /\ slot # None
    /\ ~(slot.t = "ref" /\ h[slot.n].t = shape)

RECURSIVE Mismatch(_, _, _)
Mismatch(h, cur, parts) ==
    IF parts = <<>> \/ ~IsDict(h, cur) THEN FALSE
    ELSE LET m == Match(Head(parts))
             key == IF m.ok THEN m.key ELSE Str(Head(parts))
             last == Len(parts) = 1
         IN  IF key \notin DOMAIN h[cur.n].m THEN FALSE
             ELSE LET slot == h[cur.n].m[key]
                  IN  IF m.ok
                      THEN IF ~IsList(h, slot) THEN Incompatible(h, slot, "list")
                           ELSE IF last \/ m.idx >= Len(h[slot.n].items) THEN FALSE
                           ELSE IF ~IsDict(h, h[slot.n].items[m.idx + 1])
                           THEN Incompatible(h, h[slot.n].items[m.idx + 1], "dict")
                           ELSE Mismatch(h, h[slot.n].items[m.idx + 1], Tail(parts))
                      ELSE IF last THEN FALSE
                      ELSE IF ~IsDict(h, slot) THEN Incompatible(h, slot, "dict")
                      ELSE Mismatch(h, slot, Tail(parts))

\* C8: create-or-replace on mismatch: when a part of the path needs a
\* container and the slot holds a value of another shape, the writer replaces
\* it and completes the write without an error: the value is at the path.
CreateOrReplaceOnMismatch ==
    (wr.done /\ Mismatch(wr.pre, doc, WrParts)) =>
        /\ ~wr.err
        /\ Resolve(heap, doc, wr.path) = [ok |-> TRUE, v |-> wr.value]

\* Every sequence the path addresses with an index, in the document as it
\* was before the write, has afterwards the length max(n, i+1) and its old
\* elements, but the one at i, in place
RECURSIVE GrownNotCut(_, _, _, _)
GrownNotCut(pre, post, cur, parts) ==
    IF parts = <<>> \/ ~IsDict(pre, cur) THEN TRUE
    ELSE LET m == Match(Head(parts))
             key == IF m.ok THEN m.key ELSE Str(Head(parts))
         IN  IF key \notin DOMAIN pre[cur.n].m THEN TRUE
             ELSE LET slot == pre[cur.n].m[key]
                  IN  IF ~m.ok THEN GrownNotCut(pre, post, slot, Tail(parts))
                      ELSE IF ~IsList(pre, slot) THEN TRUE
                      ELSE LET old == pre[slot.n].items
                               new == post[slot.n].items
                           IN  /\ post[cur.n].m[key] = slot
                               /\ Len(new) = Max(Len(old), m.idx + 1)
                               /\ \A j \in 1..Len(old) :
                                     j # m.idx + 1 => new[j] = old[j]
                               /\ m.idx < Len(old) =>
                                     GrownNotCut(pre, post, old[m.idx + 1], Tail(parts))

\* C10: a sequence is only grown, never truncated: a write that addresses
\* key[i] where key holds a sequence of length n leaves under key the same
\* sequence with length max(n, i+1) and every element at a position other
\* than i unchanged.
SequenceOnlyGrows == wr.done => GrownNotCut(wr.pre, heap, doc, WrParts)

\* A write at k[3] on a document whose k held two elements: four afterwards,
\* the first two in place
SequenceGrowsWitness ==
    /\ wr.done /\ ~wr.err
    /\ wr.path = <<"k", "[", "3", "]">>
    /\ WrHad("k") /\ IsList(wr.pre, WrSlot("k"))
    /\ Len(wr.pre[WrSlot("k").n].items) = 2
    /\ Len(heap[WrSlot("k").n].items) = 4
    /\ heap[WrSlot("k").n].items[2] = I(5)

-----------------------------------------------------------------------------
(* The path reader.                                                        *)

\* A read of the path just written, as the first write into the fresh
\* document, of a scalar at a path of plain parts
RoundTripCase ==
    /\ rd.done /\ wr.done
    /\ rd.root = doc
    /\ nwrites = 1 /\ rd.at = 1
    /\ rd.path = wr.path
    /\ PlainPath(wr.path)
    /\ Scalar(wr.value)

\* C6: round trip on plain paths: a scalar v written at a path p of plain
\* parts into a fresh empty document is what the reader returns for p,
\* whatever the default.
RoundTripPlain == RoundTripCase => rd.result = wr.value

\* C6, amended: the same for every path but the empty one, which the writer
\* takes as the key "" and the reader answers with the default.
RoundTripPlainNonEmpty == (RoundTripCase /\ wr.path # <<>>) => rd.result = wr.value

\* 5 written at x.y and read back with the default "D"
RoundTripWitness ==
    /\ RoundTripCase
    /\ wr.path = <<"x", ".", "y">>
    /\ wr.value = I(5)
    /\ rd.default = S("D")
    /\ rd.result = I(5)

\* C7: default substitution: the reader returns exactly the default d,
\* whatever d is, whenever some part of the path addresses a key or an index
\* the document does not have, or meets a value that is not the container
\* the part needs.
DefaultSubstitution ==
    (rd.done /\ rd.at = nwrites /\ ~Resolve(heap, rd.root, rd.path).ok) =>
        rd.result = rd.default

====
